---- MODULE Spec2Model ----
(***************************************************************************)
(* Model of src/src/ch3_practice.rs: temp_convert reads one line from      *)
(* standard input, parses it as an i32 (falling back to -1), converts      *)
(* Fahrenheit to Celsius with i32 arithmetic and prints the result.        *)
(*                                                                         *)
(* Input text is a sequence of one-character strings; output lines are     *)
(* strings built by the Display formatting of i32.                         *)
(***************************************************************************)
EXTENDS Integers, Sequences, FiniteSets

VARIABLES
    overflow_checks,  \* build profile: TRUE = debug (overflow panics), FALSE = release (wraps)
    stdin,            \* characters of standard input not yet consumed
    stdout,           \* lines written to standard output
    stderr,           \* panic diagnostics written to standard error
    pc,               \* position inside temp_convert, "idle" between calls
    buf,              \* the String `degf` that read_line appends to
    degf,             \* the i32 `degf` (shadowing binding, line 12)
    degc,             \* the i32 `degc`
    calls,            \* completed invocations of temp_convert
    reads,            \* read_line calls performed so far (history)
    faults,           \* read_line calls that returned Err (history)
    entry,            \* stdin as it was when the current invocation began (history)
    log               \* one record per completed invocation (history)

vars == <<overflow_checks, stdin, stdout, stderr, pc, buf, degf, degc, calls, reads, faults, entry, log>>

----------------------------------------------------------------------------
(* Bounds of the model *)

MaxCalls == 2
MaxPad == 1

----------------------------------------------------------------------------
(* i32 *)

I32Max == 2147483647
I32Min == -I32Max - 1
InI32(x) == I32Min <= x /\ x <= I32Max

\* a + b leaves the i32 range
AddOverflows(a, b) ==
    \/ a > 0 /\ b > 0 /\ a > I32Max - b
    \/ a < 0 /\ b < 0 /\ a < I32Min - b

\* a + b modulo 2^32, as a two's complement i32
WrappingAdd(a, b) ==
    IF a > 0 /\ b > 0 /\ a > I32Max - b THEN (a + I32Min) + (b + I32Min)
    ELSE IF a < 0 /\ b < 0 /\ a < I32Min - b THEN (a - I32Min) + (b - I32Min)
    ELSE a + b

\* a * k for a small k >= 0 as k additions: the wrapped product, and whether
\* the mathematical product left the i32 range
RECURSIVE MulSmall(_, _)
MulSmall(a, k) ==
    IF k = 0 THEN [ovf |-> FALSE, val |-> 0]
    ELSE LET r == MulSmall(a, k - 1)
         IN  [ovf |-> r.ovf \/ AddOverflows(r.val, a), val |-> WrappingAdd(r.val, a)]

\* floored division: what `/` would be if it rounded toward negative infinity
FloorDiv(a, b) == a \div b

\* `/` on i32 with a positive divisor: the quotient truncated toward zero
TruncDiv(a, b) ==
    IF a >= 0 THEN a \div b
    ELSE (a \div b) + (IF a % b = 0 THEN 0 ELSE 1)

----------------------------------------------------------------------------
(* str::trim *)

IsWhitespace(c) == c \in {" ", "\t", "\n", "\r"}

RECURSIVE TrimStart(_)
TrimStart(s) ==
    IF s = <<>> \/ ~IsWhitespace(Head(s)) THEN s ELSE TrimStart(Tail(s))

RECURSIVE TrimEnd(_)
TrimEnd(s) ==
    IF s = <<>> \/ ~IsWhitespace(s[Len(s)]) THEN s
    ELSE TrimEnd(SubSeq(s, 1, Len(s) - 1))

\* a trim that forgets the leading side
TrimEndOnly(s) == TrimEnd(s)

Trim(s) == TrimEnd(TrimStart(s))

----------------------------------------------------------------------------
(* str::parse::<i32> *)

DigitOf(c) ==
    CASE c = "0" -> 0 [] c = "1" -> 1 [] c = "2" -> 2 [] c = "3" -> 3
      [] c = "4" -> 4 [] c = "5" -> 5 [] c = "6" -> 6 [] c = "7" -> 7
      [] c = "8" -> 8 [] c = "9" -> 9 [] OTHER -> -1

ParseErr == [ok |-> FALSE, val |-> 0]

\* each digit: checked_mul(10), then checked_add or checked_sub of the digit;
\* an overflow is an Err
RECURSIVE ParseDigits(_, _, _)
ParseDigits(s, acc, neg) ==
    IF s = <<>> THEN [ok |-> TRUE, val |-> acc]
    ELSE LET d == DigitOf(Head(s))
             m == MulSmall(acc, 10)
             x == IF neg THEN -d ELSE d
         IN  IF d < 0 \/ m.ovf \/ AddOverflows(m.val, x) THEN ParseErr
             ELSE ParseDigits(Tail(s), m.val + x, neg)

ParseI32(s) ==
    IF s = <<>> \/ s = <<"+">> \/ s = <<"-">> THEN ParseErr
    ELSE IF Head(s) = "-" THEN ParseDigits(Tail(s), 0, TRUE)
    ELSE IF Head(s) = "+" THEN ParseDigits(Tail(s), 0, FALSE)
    ELSE ParseDigits(s, 0, FALSE)

\* a fallback of 0 instead of -1
ParseOrZero(s) ==
    LET r == ParseI32(Trim(s)) IN IF r.ok THEN r.val ELSE 0

\* match degf.trim().parse() { Ok(num) => num, Err(_) => -1 }
ParseOrSentinel(s) ==
    LET r == ParseI32(Trim(s)) IN IF r.ok THEN r.val ELSE -1

----------------------------------------------------------------------------
(* Display for i32, and the two println! lines *)

DigitStr(d) ==
    CASE d = 0 -> "0" [] d = 1 -> "1" [] d = 2 -> "2" [] d = 3 -> "3"
      [] d = 4 -> "4" [] d = 5 -> "5" [] d = 6 -> "6" [] d = 7 -> "7"
      [] d = 8 -> "8" [] d = 9 -> "9"

RECURSIVE NatToString(_)
NatToString(n) ==
    IF n < 10 THEN DigitStr(n) ELSE NatToString(n \div 10) \o DigitStr(n % 10)

\* the magnitude is formatted digit by digit, so i32::MIN needs no negation
DisplayI32(n) ==
    IF n >= 0 THEN NatToString(n)
    ELSE LET d == (10 - (n % 10)) % 10
             q == -((n + d) \div 10)
         IN  "-" \o (IF q = 0 THEN "" ELSE NatToString(q)) \o DigitStr(d)

PromptLine == "Input a temp to convert to Celsius"

ResultLine(f, c) == DisplayI32(f) \o " -> " \o DisplayI32(c)

----------------------------------------------------------------------------
(* (degf-32)*5/9 on i32 *)

\* the quotient floored instead of truncated
ConvertFloor(f, checks) ==
    LET subOvf == AddOverflows(f, -32)
        d == WrappingAdd(f, -32)
        p == MulSmall(d, 5)
    IN  IF checks /\ subOvf
        THEN [panic |-> TRUE, msg |-> "attempt to subtract with overflow", val |-> 0]
        ELSE IF checks /\ p.ovf
        THEN [panic |-> TRUE, msg |-> "attempt to multiply with overflow", val |-> 0]
        ELSE [panic |-> FALSE, msg |-> "", val |-> FloorDiv(p.val, 9)]

\* with overflow checks an overflowing step panics; without, it wraps
Convert(f, checks) ==
    LET subOvf == AddOverflows(f, -32)
        d == WrappingAdd(f, -32)
        p == MulSmall(d, 5)
    IN  IF checks /\ subOvf
        THEN [panic |-> TRUE, msg |-> "attempt to subtract with overflow", val |-> 0]
        ELSE IF checks /\ p.ovf
        THEN [panic |-> TRUE, msg |-> "attempt to multiply with overflow", val |-> 0]
        ELSE [panic |-> FALSE, msg |-> "", val |-> TruncDiv(p.val, 9)]

----------------------------------------------------------------------------
(* Stdin::read_line *)

RECURSIVE LineLen(_)
\* number of characters up to and including the first newline, or all of them
LineLen(s) ==
    IF s = <<>> THEN 0
    ELSE IF Head(s) = "\n" THEN 1
    ELSE 1 + LineLen(Tail(s))

\* a read that drains the whole stream
TakeAll(s) == s

TakeLine(s) == SubSeq(s, 1, LineLen(s))

DropLine(s) == SubSeq(s, Len(TakeLine(s)) + 1, Len(s))

\* a buffer kept from the previous invocation
StaleString == buf

\* String::new()
NewString == <<>>

----------------------------------------------------------------------------
(* Input streams the environment may supply *)

RECURSIVE NatChars(_)
NatChars(n) ==
    IF n < 10 THEN <<DigitStr(n)>> ELSE Append(NatChars(n \div 10), DigitStr(n % 10))

\* the decimal text of an integer other than i32::MIN
Chars(n) == IF n < 0 THEN <<"-">> \o NatChars(-n) ELSE NatChars(n)

\* the spec's examples, and the values around each overflow threshold of
\* degf-32 and of (degf-32)*5
InputNumbers ==
    { 0, -1, 32, 212, 98, -40, 100, I32Max, I32Min + 32, I32Min + 31,
      429496761, 429496762, -429496697, -429496698 }

\* i32::MIN, and the first values outside the i32 range on either side
ExtremeTexts ==
    { <<"-", "2", "1", "4", "7", "4", "8", "3", "6", "4", "8">>,
      <<"2", "1", "4", "7", "4", "8", "3", "6", "4", "8">>,
      <<"-", "2", "1", "4", "7", "4", "8", "3", "6", "4", "9">> }

OtherTexts ==
    { <<>>, <<"a", "b", "c">>, <<"-">>, <<"+">>, <<"+", "5">>, <<"-", "0">>,
      <<"1", " ", "0">>, <<"0", "0", "7">>, <<"1", "a">>, <<"-", "-", "1">>,
      <<"1", ".", "5">> }

Texts == {Chars(n) : n \in InputNumbers} \cup ExtremeTexts \cup OtherTexts

Spaces(k) == [i \in 1..k |-> " "]

LeadPads == {Spaces(k) : k \in 0..MaxPad} \cup {<<"\t">>}

TrailPads == {Spaces(k) : k \in 0..MaxPad} \cup {<<"\r">>}

NL == <<"\n">>

TailLines ==
    { Chars(-1) \o NL, <<" ", " ">> \o Chars(100) \o <<" ", " ">> \o NL, NL }

\* the lines that may follow the first one: the same line again, its text
\* without padding, or one of TailLines
FollowUps(t, l) == {l, t \o NL} \cup TailLines

RECURSIVE Tails(_, _)
Tails(F, k) ==
    IF k = 0 THEN {<<>>}
    ELSE {<<>>} \cup {f \o r : f \in F, r \in Tails(F, k - 1)}

\* a stream that ends without a final newline
DropLast(s) == SubSeq(s, 1, Len(s) - 1)

Streams ==
    {<<>>} \cup
    UNION { UNION { { l \o r, DropLast(l \o r) } :
                      r \in Tails(FollowUps(t, l), MaxCalls - 1) } :
            <<t, l>> \in { <<t, lead \o t \o trail \o NL>> :
                             t \in Texts, lead \in LeadPads, trail \in TrailPads } }

----------------------------------------------------------------------------
(* The state machine *)

NoEntry == [stdin |-> <<>>, nout |-> 0]

Init ==
    /\ overflow_checks \in BOOLEAN
    /\ stdin \in Streams
    /\ stdout = <<>>
    /\ stderr = <<>>
    /\ pc = "idle"
    /\ buf = <<>>
    /\ degf = 0
    /\ degc = 0
    /\ calls = 0
    /\ reads = 0
    /\ faults = 0
    /\ entry = NoEntry
    /\ log = <<>>

\* the invocation begins without writing the prompt
PromptSilent ==
    /\ pc = "idle"
    /\ calls < MaxCalls
    /\ buf' = NewString
    /\ entry' = [stdin |-> stdin, nout |-> Len(stdout)]
    /\ pc' = "prompted"
    /\ UNCHANGED <<overflow_checks, stdin, stdout, stderr, degf, degc, calls, reads, faults, log>>

\* lines 4-6: println!(prompt); let mut degf = String::new();
Prompt ==
    /\ pc = "idle"
    /\ calls < MaxCalls
    /\ stdout' = Append(stdout, PromptLine)
    /\ buf' = NewString
    /\ entry' = [stdin |-> stdin, nout |-> Len(stdout)]
    /\ pc' = "prompted"
    /\ UNCHANGED <<overflow_checks, stdin, stderr, degf, degc, calls, reads, faults, log>>

\* end of stream reported as an Err (as read_exact does), which expect turns
\* into a panic
ReadLineEofIsErr ==
    /\ pc = "prompted"
    /\ reads' = reads + 1
    /\ IF stdin = <<>>
       THEN /\ stderr' = Append(stderr, "Failed to read line")
            /\ pc' = "aborted"
            /\ UNCHANGED <<stdin, buf>>
       ELSE /\ buf' = buf \o TakeLine(stdin)
            /\ stdin' = DropLine(stdin)
            /\ pc' = "read"
            /\ UNCHANGED stderr
    /\ UNCHANGED <<overflow_checks, stdout, degf, degc, calls, faults, entry, log>>

\* lines 8-10, Ok: the line, newline included, is appended to the buffer
ReadLineOk ==
    /\ pc = "prompted"
    /\ buf' = buf \o TakeLine(stdin)
    /\ stdin' = DropLine(stdin)
    /\ reads' = reads + 1
    /\ pc' = "read"
    /\ UNCHANGED <<overflow_checks, stdout, stderr, degf, degc, calls, faults, entry, log>>

\* the Err of read_line discarded, the routine going on with the empty buffer
ReadLineErrIgnored ==
    /\ pc = "prompted"
    /\ reads' = reads + 1
    /\ faults' = faults + 1
    /\ pc' = "read"
    /\ UNCHANGED <<overflow_checks, stdin, stdout, stderr, buf, degf, degc, calls, entry, log>>

\* lines 8-10, Err: expect panics with its message
ReadLineErr ==
    /\ pc = "prompted"
    /\ reads' = reads + 1
    /\ faults' = faults + 1
    /\ stderr' = Append(stderr, "Failed to read line")
    /\ pc' = "aborted"
    /\ UNCHANGED <<overflow_checks, stdin, stdout, buf, degf, degc, calls, entry, log>>

\* lines 12-15
Parse ==
    /\ pc = "read"
    /\ degf' = ParseOrSentinel(buf)
    /\ pc' = "parsed"
    /\ UNCHANGED <<overflow_checks, stdin, stdout, stderr, buf, degc, calls, reads, faults, entry, log>>

\* line 17
Compute ==
    /\ pc = "parsed"
    /\ LET r == Convert(degf, overflow_checks)
       IN  IF r.panic
           THEN /\ stderr' = Append(stderr, r.msg)
                /\ pc' = "aborted"
                /\ UNCHANGED degc
           ELSE /\ degc' = r.val
                /\ pc' = "computed"
                /\ UNCHANGED stderr
    /\ UNCHANGED <<overflow_checks, stdin, stdout, buf, degf, calls, reads, faults, entry, log>>

\* lines 19-20: println!(result); return
PrintResult ==
    /\ pc = "computed"
    /\ stdout' = Append(stdout, ResultLine(degf, degc))
    /\ calls' = calls + 1
    /\ log' = Append(log, [ before     |-> entry.stdin,
                            raw        |-> buf,
                            after      |-> stdin,
                            fahrenheit |-> degf,
                            celsius    |-> degc,
                            out        |-> SubSeq(stdout', entry.nout + 1, Len(stdout')) ])
    /\ pc' = "idle"
    /\ UNCHANGED <<overflow_checks, stdin, stderr, buf, degf, degc, reads, faults, entry>>

Next ==
    \/ Prompt
    \/ ReadLineOk
    \/ ReadLineErr
    \/ Parse
    \/ Compute
    \/ PrintResult

Spec == Init /\ [][Next]_vars

----------------------------------------------------------------------------
(* Vocabulary of the properties *)

ReadDiagnostic == "Failed to read line"

\* the process died in expect: the read failed
ReadPanicked == pc = "aborted" /\ stderr = <<ReadDiagnostic>>

\* the process died in the arithmetic of line 17
ArithPanicked == pc = "aborted" /\ stderr # <<ReadDiagnostic>>

\* the characters an invocation took from standard input
Consumed(e) == SubSeq(e.before, 1, Len(e.before) - Len(e.after))

\* the lines the current invocation has written so far
Written == SubSeq(stdout, entry.nout + 1, Len(stdout))

IsDigit(c) == c \in {"0", "1", "2", "3", "4", "5", "6", "7", "8", "9"}

Unsigned(t) == IF t # <<>> /\ t[1] \in {"+", "-"} THEN Tail(t) ELSE t

\* an optional sign followed by one or more decimal digits
IsIntegerText(t) ==
    /\ Unsigned(t) # <<>>
    /\ \A i \in 1..Len(Unsigned(t)) : IsDigit(Unsigned(t)[i])

RECURSIVE StripZeros(_)
StripZeros(m) == IF m # <<>> /\ m[1] = "0" THEN StripZeros(Tail(m)) ELSE m

\* digit strings without leading zeros compared as numbers: m > lim
Exceeds(m, lim) ==
    \/ Len(m) > Len(lim)
    \/ /\ Len(m) = Len(lim)
       /\ \E i \in 1..Len(m) :
            /\ DigitOf(m[i]) > DigitOf(lim[i])
            /\ \A j \in 1..(i - 1) : m[j] = lim[j]

\* the decimal text of a value in -2147483648 .. 2147483647
ValidI32Text(t) ==
    /\ IsIntegerText(t)
    /\ ~Exceeds(StripZeros(Unsigned(t)),
                IF t[1] = "-" THEN <<"2", "1", "4", "7", "4", "8", "3", "6", "4", "8">>
                ELSE <<"2", "1", "4", "7", "4", "8", "3", "6", "4", "7">>)

\* the line, without its surrounding whitespace, is no i32
Unparseable(line) == ~ValidI32Text(Trim(line))

\* (f - 32) * 5 / 9 over the mathematical integers, truncated toward zero;
\* computed from f = 9q + r so that no intermediate value leaves TLC's range
ExactCelsius(f) ==
    LET q == f \div 9
        r == f % 9
        fl == 5 * (q - 4) + ((5 * (r + 4)) \div 9)
    IN  IF f >= 32 \/ (5 * (r + 4)) % 9 = 0 THEN fl ELSE fl + 1

----------------------------------------------------------------------------
(* C1 *)

\* C1: for every integer f the parser accepts, the routine prints
\* f -> c with c = (f - 32) * 5 / 9 truncated toward zero: an invocation that
\* parsed f does not abort, and the line it printed carries that c.
C1_FormulaForAllAccepted ==
    /\ ArithPanicked => Unparseable(buf)
    /\ \A i \in 1..Len(log) :
         ~Unparseable(Consumed(log[i])) =>
            log[i].out[2] = ResultLine(log[i].fahrenheit, ExactCelsius(log[i].fahrenheit))

----------------------------------------------------------------------------
(* C2 *)

\* C2: when the trimmed line is no valid base-10 i32 (non-numeric, empty or out
\* of range), fahrenheit becomes -1, nothing is reported, the routine does not
\* abort and goes on to print the result line.
C2_ParseFailureSentinel ==
    /\ (pc \in {"parsed", "computed"} /\ Unparseable(buf)) =>
          /\ degf = -1
          /\ stderr = <<>>
          /\ Written = <<PromptLine>>
          /\ ~Convert(degf, overflow_checks).panic
    /\ ArithPanicked => ~Unparseable(buf)
    /\ \A i \in 1..Len(log) :
         Unparseable(Consumed(log[i])) =>
            /\ log[i].fahrenheit = -1
            /\ Len(log[i].out) = 2
            /\ log[i].out[1] = PromptLine
            /\ log[i].out[2] = ResultLine(-1, log[i].celsius)

\* an out-of-range decimal went through the fallback and was printed
C2_Witness ==
    \E i \in 1..Len(log) :
        /\ Trim(Consumed(log[i])) = <<"2", "1", "4", "7", "4", "8", "3", "6", "4", "8">>
        /\ log[i].fahrenheit = -1
        /\ Len(log[i].out) = 2

----------------------------------------------------------------------------
(* C3 *)

\* C3 as stated: non-numeric or empty input prints the result line -1 -> -40.
C3_AsStated ==
    \A i \in 1..Len(log) :
        ~IsIntegerText(Trim(Consumed(log[i]))) =>
            /\ log[i].fahrenheit = -1
            /\ log[i].out[2] = "-1 -> -40"

\* C3 amended: non-numeric or empty input yields fahrenheit = -1 and the
\* result line -1 -> -18.
C3_SentinelLine ==
    \A i \in 1..Len(log) :
        ~IsIntegerText(Trim(Consumed(log[i]))) =>
            /\ log[i].fahrenheit = -1
            /\ log[i].out[2] = "-1 -> -18"

\* "abc" was read and its result line printed
C3_Witness ==
    \E i \in 1..Len(log) :
        /\ Trim(Consumed(log[i])) = <<"a", "b", "c">>
        /\ log[i].out = <<PromptLine, "-1 -> -18">>

----------------------------------------------------------------------------
(* C4 *)

\* C4: every input line whose read succeeds leads to normal completion with a
\* result line: the only abort is the failed read, and no overflow of f - 32
\* or of (f - 32) * 5 changes the value printed.
C4_AnyInputCompletes ==
    /\ pc = "aborted" => ReadPanicked
    /\ \A i \in 1..Len(log) :
         log[i].celsius = ExactCelsius(log[i].fahrenheit)

----------------------------------------------------------------------------
(* C5 *)

\* C5: a failed read ends the process with a diagnostic: it is not retried, no
\* result line follows the prompt, and control never returns to a caller.
C5_ReadFailureFatal ==
    faults > 0 =>
        /\ pc = "aborted"
        /\ stderr = <<ReadDiagnostic>>
        /\ faults = 1
        /\ reads = calls + 1
        /\ Written = <<PromptLine>>
        /\ Len(log) = calls
        /\ ~ENABLED Next

\* the second invocation's read failed after the first completed
C5_Witness == faults = 1 /\ calls = 1 /\ pc = "aborted"

----------------------------------------------------------------------------
(* C6 *)

\* C6: the prompt is written before the read, and a completed invocation
\* has written exactly two lines: the prompt, then <fahrenheit> -> <celsius>.
C6_PromptThenResult ==
    /\ reads <= Cardinality({i \in 1..Len(stdout) : stdout[i] = PromptLine})
    /\ pc \in {"read", "parsed", "computed", "aborted"} => Written = <<PromptLine>>
    /\ pc = "idle" => Len(stdout) = 2 * calls
    /\ \A i \in 1..Len(log) :
         /\ log[i].out = <<stdout[2 * i - 1], stdout[2 * i]>>
         /\ log[i].out[1] = PromptLine
         /\ log[i].out[2] = ResultLine(log[i].fahrenheit, log[i].celsius)

\* two invocations completed, four lines on standard output
C6_Witness == pc = "idle" /\ calls = 2 /\ Len(stdout) = 4 /\ reads = 2

----------------------------------------------------------------------------
(* C7 *)

\* the line without its terminating newline
StripNL(l) == IF l # <<>> /\ l[Len(l)] = "\n" THEN SubSeq(l, 1, Len(l) - 1) ELSE l

\* l is t with whitespace, and nothing else, put before and after it
PaddingOf(l, t) ==
    \E a \in 0..Len(l) : \E b \in a..Len(l) :
        /\ SubSeq(l, a + 1, b) = t
        /\ \A k \in (1..a) \cup ((b + 1)..Len(l)) : IsWhitespace(l[k])

\* C7: an integer text with whitespace around it gives the same fahrenheit
\* and the same result line as the text alone.
C7_WhitespaceIgnored ==
    \A i, j \in 1..Len(log) :
        LET t == StripNL(Consumed(log[j]))
        IN  (IsIntegerText(t) /\ PaddingOf(Consumed(log[i]), t)) =>
                /\ log[i].fahrenheit = log[j].fahrenheit
                /\ log[i].out = log[j].out

\* " 100 " and then "100" were converted, both to 100 -> 37
C7_Witness ==
    /\ Len(log) = 2
    /\ Consumed(log[1]) = <<" ", "1", "0", "0", " ", "\n">>
    /\ StripNL(Consumed(log[2])) = <<"1", "0", "0">>
    /\ log[2].out[2] = "100 -> 37"

----------------------------------------------------------------------------
(* C8 *)

\* l is a whole line: it has no newline before its last character, and it
\* ends in one unless the stream ended there
OneLine(l, rest) ==
    /\ \A k \in 1..(Len(l) - 1) : l[k] # "\n"
    /\ rest # <<>> => (l # <<>> /\ l[Len(l)] = "\n")
    /\ (l = <<>>) => (rest = <<>>)

\* C8: an invocation takes exactly the first line off standard input and
\* leaves the rest, so the next invocation reads the next line.
C8_OneLineConsumed ==
    /\ reads = calls + (IF pc \in {"idle", "prompted"} THEN 0 ELSE 1)
    /\ \A i \in 1..Len(log) :
         /\ log[i].before = log[i].raw \o log[i].after
         /\ OneLine(log[i].raw, log[i].after)
         /\ i > 1 => log[i].before = log[i - 1].after

\* the second invocation read the second, different, line
C8_Witness ==
    /\ Len(log) = 2
    /\ log[1].after # <<>>
    /\ log[2].raw = log[1].after
    /\ log[2].raw # log[1].raw

----------------------------------------------------------------------------
(* C9 *)

\* C9: two invocations given the same input line print the same line, and
\* celsius is a function of fahrenheit: nothing carries over between calls.
C9_Deterministic ==
    \A i, j \in 1..Len(log) :
        /\ Consumed(log[i]) = Consumed(log[j]) => log[i].out = log[j].out
        /\ log[i].fahrenheit = log[j].fahrenheit => log[i].celsius = log[j].celsius

\* the same line, an integer, was converted twice
C9_Witness ==
    /\ Len(log) = 2
    /\ Consumed(log[1]) = Consumed(log[2])
    /\ IsIntegerText(Trim(Consumed(log[1])))
    /\ log[1].out = log[2].out

----------------------------------------------------------------------------
(* C10 *)

\* the line holding exactly -1
MinusOneLine == <<"-", "1", "\n">>

\* C10: the whole standard output of an invocation given an unparseable line
\* is that of an invocation given the line -1, and nothing else is reported.
C10_FailureLooksLikeMinusOne ==
    \A i, j \in 1..Len(log) :
        (Unparseable(Consumed(log[i])) /\ Consumed(log[j]) = MinusOneLine) =>
            /\ log[i].out = log[j].out
            /\ log[i].fahrenheit = -1
            /\ log[i].celsius = Convert(-1, overflow_checks).val
            /\ stderr = <<>> \/ pc = "aborted"

\* an unparseable line and the line -1 were both converted
C10_Witness ==
    \E i, j \in 1..Len(log) :
        /\ Unparseable(Consumed(log[i]))
        /\ Trim(Consumed(log[i])) # <<>>
        /\ Consumed(log[j]) = MinusOneLine
        /\ log[i].out = log[j].out

----------------------------------------------------------------------------
(* C11 *)

\* C11: at end of stream with no data the read completes with an empty line
\* instead of faulting: the routine does not abort on it, takes the fallback
\* (fahrenheit = -1) and prints the result line it prints for an empty line.
C11_EndOfStreamIsEmptyLine ==
    /\ (pc = "prompted" /\ stdin = <<>>) =>
          ENABLED (ReadLineOk /\ pc' = "read" /\ buf' = <<>>)
    /\ (pc = "aborted" /\ entry.stdin = <<>>) => (faults = 1 /\ ReadPanicked)
    /\ (pc = "read" /\ entry.stdin = <<>>) => buf = <<>>
    /\ (pc \in {"parsed", "computed"} /\ entry.stdin = <<>>) =>
          (degf = -1 /\ stderr = <<>>)
    /\ \A i \in 1..Len(log) :
         log[i].before = <<>> =>
            /\ log[i].raw = <<>>
            /\ log[i].fahrenheit = -1
            /\ Len(log[i].out) = 2
            /\ \A j \in 1..Len(log) :
                 Consumed(log[j]) = NL => log[i].out = log[j].out

\* an empty line was converted, then the stream was at its end and the
\* second invocation completed with the same output
C11_Witness ==
    /\ Len(log) = 2
    /\ Consumed(log[1]) = NL
    /\ log[2].before = <<>>
    /\ log[2].fahrenheit = -1
    /\ log[2].out = log[1].out

====
